---- MODULE Spec2Model ----
(***************************************************************************)
(* gh-release-apt: the import command (download the .deb assets of a       *)
(* release into pool/<owner>/<repo>/<tag>/, skipping the ones a saved      *)
(* Packages fragment vouches for) and the assemble command (group the pool *)
(* fragments by architecture into dists/stable/main/binary-<arch>/Packages *)
(* and write the Release manifest).                                        *)
(*                                                                         *)
(* A JavaScript string is a sequence of symbols.  A symbol is a whitespace *)
(* character (" " or "\n") or an opaque run of non-whitespace characters   *)
(* ("Filename:", "/", "a", ".deb", ...).  The prefixes, suffixes and       *)
(* separators the code looks for are symbols of their own, so startsWith,  *)
(* endsWith, split, trim and basename act on symbols exactly as the code   *)
(* acts on characters.                                                     *)
(***************************************************************************)
EXTENDS Integers, Sequences, FiniteSets, TLC

VARIABLES
  \* ---- the output tree --------------------------------------------------
  debs,         \* artifact files of the imported release's directory: name -> bytes
  rootDebs,     \* names of .deb files lying directly in the output directory
  dirs,         \* the release directories under pool/ that exist
  frags,        \* pool/**/Packages: release directory -> text, NoFile or Unreadable
  dists,        \* files under dists/stable: relative path -> content
  \* ---- the remote side --------------------------------------------------
  release,      \* what getLatestRelease returns: [tag_name, assets]
  \* ---- one import run (runAction) ---------------------------------------
  ipc,          \* position of the import run
  toSkip,       \* categorizeAssetsByChecksum's toSkip
  toDownload,   \* categorizeAssetsByChecksum's toDownload
  downloadedFiles, \* the list downloadDebAssets builds and returns
  fetchLog,     \* assets the transport was invoked for in this run, in call order
  ierr,         \* the error the import run ended in, or NoError
  planned,      \* what the run saw when it planned: [assets, index, present, files, at]
  prevRun,      \* the previous completed downloadDebAssets call, or NoRun
  iruns,        \* import runs started
  \* ---- one assemble run (assembleAction) --------------------------------
  apc,          \* position of the assemble run
  sign,         \* options.sign of the run
  packagesFiles,\* findFilesRecursive(poolDir, 'Packages'), in discovery order
  archKeys,     \* keys of the entriesByArch Map, in insertion order
  entriesByArch,\* values of the entriesByArch Map: architecture -> entries
  widx,         \* how many architectures the write loop has finished
  aerr,         \* the error the assemble run ended in, or NoError
  aruns,        \* assemble runs started
  dists0,       \* the files under dists/stable when the run started
  clean,        \* no assemble run has failed so far
  \* ---- history ---------------------------------------------------------
  source,       \* the entries the release directory's fragment was serialized
                \* from, or NoSource when it was not written by the serializer
  \* ---- one call of a function of the command line or of the planner ------
  arg,          \* the argument of the call
  result,       \* what the call returned or threw
  called        \* whether the call was made

fsVars  == <<debs, rootDebs, dirs, frags, dists>>
impVars == <<ipc, toSkip, toDownload, downloadedFiles, fetchLog, ierr, planned, prevRun, iruns>>
asmVars == <<apc, sign, packagesFiles, archKeys, entriesByArch, widx, aerr, aruns, dists0,
             clean>>
vars    == <<debs, rootDebs, dirs, frags, dists, release, ipc, toSkip, toDownload,
             downloadedFiles, fetchLog, ierr, planned, prevRun, iruns, apc, sign,
             packagesFiles, archKeys, entriesByArch, widx, aerr, aruns, dists0,
             clean, source, arg, result, called>>
callVars == <<arg, result, called>>

(***************************************************************************)
(* Bounds of the model.                                                    *)
(***************************************************************************)
MaxImportRuns == 2
MaxAssembleRuns == 2
MaxEntries == 2
MaxShaLines == 2
MaxIdLen == 4
MaxAssets == 3
MaxRunsEach == 1

(***************************************************************************)
(* Strings.                                                                *)
(***************************************************************************)
LF == "\n"
SP == " "
EmptyStr == << >>

\* JS null / undefined, where the code tells it from a string
NULL == <<"<null>">>

\* a value used in a condition: null, undefined and "" are falsy
Truthy(s) == s # NULL /\ s # EmptyStr

\* String.prototype.startsWith
StartsWith(s, p) == Len(s) >= Len(p) /\ SubSeq(s, 1, Len(p)) = p

\* String.prototype.endsWith
EndsWith(s, p) == Len(s) >= Len(p) /\ SubSeq(s, Len(s) - Len(p) + 1, Len(s)) = p

\* String.prototype.substring(p.length)
Substring(s, p) == SubSeq(s, Len(p) + 1, Len(s))

\* \s of a regular expression, and the characters trim() removes
IsSpace(c) == c \in {SP, LF}

RECURSIVE TrimStart(_)
TrimStart(s) ==
  IF s # << >> /\ IsSpace(Head(s)) THEN TrimStart(Tail(s)) ELSE s

RECURSIVE TrimEnd(_)
TrimEnd(s) ==
  IF s # << >> /\ IsSpace(s[Len(s)]) THEN TrimEnd(SubSeq(s, 1, Len(s) - 1)) ELSE s

\* String.prototype.trim
Trim(s) == TrimEnd(TrimStart(s))

\* String.prototype.toLowerCase, symbol by symbol
LowerSym(c) ==
  CASE c = "H(" -> "h("
    [] c = "AB" -> "ab"
    [] OTHER -> c

ToLowerCase(s) == [i \in 1..Len(s) |-> LowerSym(s[i])]

\* Array.prototype.join
RECURSIVE Join(_, _)
Join(parts, sep) ==
  IF parts = << >> THEN EmptyStr
  ELSE IF Len(parts) = 1 THEN parts[1]
  ELSE parts[1] \o sep \o Join(Tail(parts), sep)

\* String.prototype.split(c) for a one-symbol separator
RECURSIVE Split(_, _)
Split(s, c) ==
  LET hits == {i \in 1..Len(s) : s[i] = c}
  IN  IF hits = {} THEN <<s>>
      ELSE LET i == CHOOSE h \in hits : \A g \in hits : h <= g
           IN  <<SubSeq(s, 1, i - 1)>> \o Split(SubSeq(s, i + 1, Len(s)), c)

\* String.prototype.split(/\n\s*\n/): a match starts at the first newline that
\* is followed, after whitespace only, by another newline, and (\s* is greedy)
\* ends at the last newline of that whitespace run
RECURSIVE SplitBlank(_)
SplitBlank(s) ==
  LET n == Len(s)
      RunEnd(i) == CHOOSE j \in i..n :
                     /\ \A k \in (i + 1)..j : IsSpace(s[k])
                     /\ (j = n \/ ~IsSpace(s[j + 1]))
      Ends(i) == {j \in (i + 1)..RunEnd(i) : s[j] = LF}
      starts == {i \in 1..n : s[i] = LF /\ Ends(i) # {}}
  IN  IF starts = {} THEN <<s>>
      ELSE LET i == CHOOSE h \in starts : \A g \in starts : h <= g
               e == CHOOSE j \in Ends(i) : \A g \in Ends(i) : g <= j
           IN  <<SubSeq(s, 1, i - 1)>> \o SplitBlank(SubSeq(s, e + 1, n))

\* path.basename: what follows the last "/" (trailing separators ignored)
RECURSIVE basename(_)
basename(p) ==
  IF p # << >> /\ p[Len(p)] = "/" THEN basename(SubSeq(p, 1, Len(p) - 1))
  ELSE LET hits == {i \in 1..Len(p) : p[i] = "/"}
       IN  IF hits = {} THEN p
           ELSE LET i == CHOOSE h \in hits : \A g \in hits : g <= h
                IN  SubSeq(p, i + 1, Len(p))

\* path.join(dir, name)
PathJoin(dir, name) == dir \o <<"/">> \o name

\* path.relative(from, to) for a file `to` below the directory `from`
PathRelative(from, to) == SubSeq(to, Len(from) + 2, Len(to))

\* crypto.createHash('sha256').update(content).digest('hex'): an injective
\* function of the content, in lowercase and without white space
HexSym(c) == IF c = LF THEN "<lf>" ELSE IF c = SP THEN "<sp>" ELSE c
Sha256Hex(content) ==
  <<"h(">> \o [i \in 1..Len(content) |-> HexSym(content[i])] \o <<")">>

\* length in bytes of the UTF-8 encoding of a symbol
SymBytes(c) ==
  CASE c \in {LF, SP, "/", "a", "b", "z", "o", "r", "x", "y", ")"} -> 1
    [] c \in {"p0", "p1", "p2", "p3", "p4", "ab", "gh", "v0", "v1", "h("} -> 2
    [] c = "out" -> 3
    [] c \in {"pool", ".deb"} -> 4
    [] c \in {"amd64", "arm64"} -> 5
    [] c = "SHA256:" -> 7
    [] c = "Package:" -> 8
    [] c = "Filename:" -> 9
    [] c = "Architecture:" -> 13

RECURSIVE Utf8Len(_)
Utf8Len(s) == IF s = << >> THEN 0 ELSE SymBytes(Head(s)) + Utf8Len(Tail(s))

(***************************************************************************)
(* The layout.                                                             *)
(***************************************************************************)
\* path.resolve(options.output)
OutputDir == <<"/", "out">>
Owner == <<"o">>
Repo == <<"r">>

\* the directory of (owner, repo, tag): path.join(outputDir, 'pool', owner, repo, tag)
ReleaseDir(outputDir, owner, repo, tag) ==
  PathJoin(PathJoin(PathJoin(PathJoin(outputDir, <<"pool">>), owner), repo), tag)

\* the poolDir of assembleAction
PoolDir == PathJoin(OutputDir, <<"pool">>)

\* the release directories of the pool: the one the import command works in
\* and one left by the import of an older release
TagNew == <<"v1">>
TagOld == <<"v0">>
DirNew == ReleaseDir(OutputDir, Owner, Repo, TagNew)
DirOld == ReleaseDir(OutputDir, Owner, Repo, TagOld)
PoolDirs == {DirNew, DirOld}

\* a file that does not exist (ENOENT) and one that cannot be read (EACCES)
NoFile == <<"<ENOENT>">>
Unreadable == <<"<EACCES>">>

\* names of the artifact files
NameA == <<"a", ".deb">>
NameB == <<"b", ".deb">>
NameN == <<"n", ".txt">>
NameZ == <<"z", ".deb">>

\* a Map: a function on the keys it holds
EmptyMap == << >>
MapHas(m, k) == k \in DOMAIN m
MapGet(m, k) == IF k \in DOMAIN m THEN m[k] ELSE NULL
MapSet(m, k, v) == [x \in (DOMAIN m) \cup {k} |-> IF x = k THEN v ELSE m[x]]

(***************************************************************************)
(* repository.mjs: the checksum index of a fragment.                       *)
(***************************************************************************)
\* the loop over the lines of one entry: the last Filename: and the last
\* SHA256: line win
\* the scan of an entry's lines, were the first SHA256 line kept
RECURSIVE ScanEntryLines_FirstKept(_, _, _)
ScanEntryLines_FirstKept(lines, filename, sha256) ==
  IF lines = << >> THEN [filename |-> filename, sha256 |-> sha256]
  ELSE LET line == Head(lines)
       IN  IF StartsWith(line, <<"Filename:">>)
             THEN ScanEntryLines_FirstKept(Tail(lines),
                                 basename(Trim(Substring(line, <<"Filename:">>))),
                                 sha256)
           ELSE IF StartsWith(line, <<"SHA256:">>)
             THEN ScanEntryLines_FirstKept(Tail(lines), filename,
                                 IF sha256 = NULL
                                   THEN Trim(Substring(line, <<"SHA256:">>))
                                   ELSE sha256)
           ELSE ScanEntryLines_FirstKept(Tail(lines), filename, sha256)

RECURSIVE ScanEntryLines(_, _, _)
ScanEntryLines(lines, filename, sha256) ==
  IF lines = << >> THEN [filename |-> filename, sha256 |-> sha256]
  ELSE LET line == Head(lines)
       IN  IF StartsWith(line, <<"Filename:">>)
             THEN ScanEntryLines(Tail(lines),
                                 basename(Trim(Substring(line, <<"Filename:">>))),
                                 sha256)
           ELSE IF StartsWith(line, <<"SHA256:">>)
             THEN ScanEntryLines(Tail(lines), filename,
                                 Trim(Substring(line, <<"SHA256:">>)))
           ELSE ScanEntryLines(Tail(lines), filename, sha256)

\* content.split(/\n\s*\n/).filter(entry => entry.trim())
SplitEntries(content) ==
  SelectSeq(SplitBlank(content), LAMBDA entry : Trim(entry) # EmptyStr)

\* the loop over the entries, were a name that is in the map not set again
RECURSIVE IndexEntries_FirstKept(_, _)
IndexEntries_FirstKept(entries, checksumMap) ==
  IF entries = << >> THEN checksumMap
  ELSE LET found == ScanEntryLines(Split(Head(entries), LF), NULL, NULL)
       IN  IndexEntries_FirstKept(Tail(entries),
             IF Truthy(found.filename) /\ Truthy(found.sha256)
                /\ ~MapHas(checksumMap, found.filename)
               THEN MapSet(checksumMap, found.filename, found.sha256)
               ELSE checksumMap)

RECURSIVE IndexEntries(_, _)
IndexEntries(entries, checksumMap) ==
  IF entries = << >> THEN checksumMap
  ELSE LET found == ScanEntryLines(Split(Head(entries), LF), NULL, NULL)
       IN  IndexEntries(Tail(entries),
             IF Truthy(found.filename) /\ Truthy(found.sha256)
               THEN MapSet(checksumMap, found.filename, found.sha256)
               ELSE checksumMap)

\* parsePackagesFile, given what readFile finds at packagesPath
parsePackagesFile(file) ==
  IF file \in {NoFile, Unreadable} THEN EmptyMap
  ELSE IndexEntries(SplitEntries(file), EmptyMap)

(***************************************************************************)
(* github.mjs: the sync planner.                                           *)
(***************************************************************************)
\* the filter, were a name kept that has .deb anywhere in it
filterDebAssets_Includes(rel) ==
  SelectSeq(rel.assets,
            LAMBDA asset : \E i \in 1..Len(asset.name) : asset.name[i] = ".deb")

filterDebAssets(rel) ==
  SelectSeq(rel.assets, LAMBDA asset : EndsWith(asset.name, <<".deb">>))

\* extractAssetSHA256 were the hex part taken whatever the algorithm
extractAssetSHA256_AnyAlgo(asset) ==
  IF asset.digest # NULL
    THEN Tail(asset.digest)
    ELSE NULL

extractAssetSHA256(asset) ==
  IF asset.digest # NULL /\ StartsWith(asset.digest, <<"sha256:">>)
    THEN Substring(asset.digest, <<"sha256:">>)
    ELSE NULL

\* shouldSkip without the fs.access test: the record alone grants the skip
shouldSkip_RecordAlone(asset, existingChecksums, downloadDir, existing) ==
  LET existingSHA256 == MapGet(existingChecksums, asset.name)
      assetSHA256 == extractAssetSHA256(asset)
  IN  /\ Truthy(existingSHA256)
      /\ Truthy(assetSHA256)
      /\ ToLowerCase(existingSHA256) = ToLowerCase(assetSHA256)

\* the shouldSkip of one asset; `existing` is the set of paths fs.access finds
shouldSkip(asset, existingChecksums, downloadDir, existing) ==
  LET filePath == PathJoin(downloadDir, asset.name)
      existingSHA256 == MapGet(existingChecksums, asset.name)
      assetSHA256 == extractAssetSHA256(asset)
  IN  /\ Truthy(existingSHA256)
      /\ Truthy(assetSHA256)
      /\ ToLowerCase(existingSHA256) = ToLowerCase(assetSHA256)
      /\ filePath \in existing

Located(assets, downloadDir) ==
  [i \in 1..Len(assets) |->
     [asset |-> assets[i], filePath |-> PathJoin(downloadDir, assets[i].name)]]

categorizeAssetsByChecksum(assets, existingChecksums, downloadDir, existing) ==
  [toDownload |->
     SelectSeq(Located(assets, downloadDir),
               LAMBDA e : ~shouldSkip(e.asset, existingChecksums, downloadDir, existing)),
   toSkip |->
     SelectSeq(Located(assets, downloadDir),
               LAMBDA e : shouldSkip(e.asset, existingChecksums, downloadDir, existing))]

(***************************************************************************)
(* The remote releases and the files the model starts from.                *)
(***************************************************************************)
\* asset.digest as GitHub gives it for content `bytes`
DigestLower(bytes) == <<"sha256:">> \o Sha256Hex(bytes)
DigestUpper(bytes) == <<"sha256:", "H(">> \o bytes \o <<")">>
DigestMd5 == <<"md5:">> \o Sha256Hex(<<"x">>)
DigestNoHex == <<"sha256:">>

\* a release asset; `bytes` is what its browser_download_url serves
Asset(name, bytes, digest) == [name |-> name, bytes |-> bytes, digest |-> digest]

Rel(assets) == [tag_name |-> TagNew, assets |-> assets]

RelAB == Rel(<<Asset(NameA, <<"x">>, DigestLower(<<"x">>)),
               Asset(NameB, <<"y">>, DigestLower(<<"y">>))>>)
RelMixed == Rel(<<Asset(NameB, <<"y">>, DigestUpper(<<"y">>)),
                  Asset(NameN, <<"n">>, DigestLower(<<"n">>)),
                  Asset(NameA, <<"x">>, DigestMd5)>>)
RelNoDigest == Rel(<<Asset(NameA, <<"x">>, NULL),
                     Asset(NameB, <<"y">>, DigestNoHex)>>)
RelChanged == Rel(<<Asset(NameA, <<"y">>, DigestLower(<<"y">>)),
                    Asset(NameB, <<"y">>, DigestLower(<<"y">>))>>)
RelNoDeb == Rel(<<Asset(NameN, <<"n">>, DigestLower(<<"n">>))>>)
Releases == {RelAB, RelMixed, RelNoDigest, RelChanged, RelNoDeb}

\* the bytes of a file a download broke off in
Partial == <<"part">>

\* the architecture a package file declares
ArchOfBytes(bytes) == IF bytes = <<"y">> THEN "arm64" ELSE "amd64"

\* one entry as the scanning tool prints it
ScanEntry(filePath, bytes, hex) ==
  <<"Package:", SP, "gh", LF, "Architecture:", SP, ArchOfBytes(bytes), LF,
    "Filename:", SP>> \o filePath \o <<LF, "SHA256:", SP>> \o hex \o <<LF>>

\* the output of dpkg-scanpackages over the package files `files` (path ->
\* bytes): one entry and one blank line per file that is a package, in
\* the order of `order`
RECURSIVE ScanOutput(_, _)
ScanOutput(files, order) ==
  IF order = << >> THEN EmptyStr
  ELSE LET f == Head(order)
       IN  (IF f \in DOMAIN files /\ files[f] # Partial
              THEN ScanEntry(f, files[f], Sha256Hex(files[f])) \o <<LF>>
              ELSE EmptyStr)
           \o ScanOutput(files, Tail(order))

PackagesPath(dir) == PathJoin(dir, <<"Packages">>)
PathA == PathJoin(DirNew, NameA)
PathB == PathJoin(DirNew, NameB)
PathZ == PathJoin(OutputDir, NameZ)
ScanOrder == <<PathZ, PathA, PathB>>

\* fragments the release directory may hold when an import starts
FragAB == ScanOutput((PathA :> <<"x">>) @@ (PathB :> <<"y">>), ScanOrder)
FragUpper ==
  ScanEntry(PathA, <<"x">>, <<"H(", "x", ")">>) \o <<LF>>
  \o ScanEntry(PathB, <<"y">>, Sha256Hex(<<"y">>))
FragStale ==
  ScanEntry(PathA, <<"n">>, Sha256Hex(<<"n">>)) \o <<SP, LF>>
  \o ScanEntry(PathB, <<"x">>, Sha256Hex(<<"x">>)) \o <<LF>>
  \o ScanEntry(PathB, <<"y">>, Sha256Hex(<<"y">>))
ImportFrags == {NoFile, Unreadable, FragAB, FragUpper, FragStale}

\* artifact files the release directory may hold when an import starts
ImportDebs ==
  { EmptyMap,
    (NameA :> <<"x">>),
    (NameB :> <<"y">>),
    (NameA :> <<"x">>) @@ (NameB :> <<"y">>) }

\* fs.readFile / fs.access on the pool
ReadFrag(path) == IF path \in DOMAIN frags THEN frags[path] ELSE NoFile
ExistingArtifacts == {PathJoin(DirNew, n) : n \in DOMAIN debs}

\* the fragment was written by the scanning tool or by hand
NoSource == << >>

NoError == [stage |-> "none", name |-> EmptyStr, cause |-> "none"]
NoPlan == [assets |-> << >>, index |-> EmptyMap, present |-> {}, files |-> EmptyMap,
           at |-> 0]
NoRun == [assets |-> << >>, returned |-> << >>, ran |-> FALSE, done |-> FALSE, at |-> 0]

(***************************************************************************)
(* The import command: runAction and downloadDebAssets, step by step.      *)
(***************************************************************************)
ImportIdle == ipc \in {"idle", "done", "failed"}

\* runAction up to getLatestRelease, which returns the release or throws
ImportStart ==
  /\ ImportIdle
  /\ iruns < MaxImportRuns
  /\ iruns' = iruns + 1
  /\ toSkip' = << >>
  /\ toDownload' = << >>
  /\ downloadedFiles' = << >>
  /\ fetchLog' = << >>
  /\ planned' = NoPlan
  /\ \E found \in BOOLEAN :
       IF found
         THEN ipc' = "plan" /\ ierr' = NoError
         ELSE /\ ipc' = "failed"
              /\ ierr' = [stage |-> "release", name |-> EmptyStr, cause |-> "404"]
  /\ UNCHANGED <<fsVars, release, source, callVars, prevRun, asmVars>>

\* downloadDebAssets up to the loop over toSkip, were a read error of the
\* fragment other than ENOENT thrown on
ImportPlan_ReadErrorThrown ==
  /\ ipc = "plan"
  /\ LET debAssets == filterDebAssets(release)
         downloadDir == ReleaseDir(OutputDir, Owner, Repo, release.tag_name)
         packagesPath == PathJoin(downloadDir, <<"Packages">>)
         existingChecksums == parsePackagesFile(ReadFrag(packagesPath))
         cat == categorizeAssetsByChecksum(debAssets, existingChecksums,
                                           downloadDir, ExistingArtifacts)
     IN  IF ReadFrag(packagesPath) = Unreadable
           THEN /\ ipc' = "failed"
                /\ ierr' = [stage |-> "index", name |-> EmptyStr, cause |-> "EACCES"]
                /\ UNCHANGED <<toSkip, toDownload, downloadedFiles, planned>>
           ELSE /\ toSkip' = cat.toSkip
                /\ toDownload' = cat.toDownload
                /\ downloadedFiles' = [i \in 1..Len(cat.toSkip) |-> cat.toSkip[i].filePath]
                /\ planned' = [assets |-> debAssets, index |-> existingChecksums,
                               present |-> ExistingArtifacts, files |-> debs, at |-> iruns]
                /\ ipc' = "fetch"
                /\ UNCHANGED ierr
  /\ dirs' = dirs \cup {ReleaseDir(OutputDir, Owner, Repo, release.tag_name)}
  /\ UNCHANGED <<debs, rootDebs, frags, dists, release, source, callVars, fetchLog, prevRun, iruns, asmVars>>

\* downloadDebAssets up to the loop over toSkip
ImportPlan ==
  /\ ipc = "plan"
  /\ LET debAssets == filterDebAssets(release)
         downloadDir == ReleaseDir(OutputDir, Owner, Repo, release.tag_name)
         packagesPath == PathJoin(downloadDir, <<"Packages">>)
         existingChecksums == parsePackagesFile(ReadFrag(packagesPath))
         cat == categorizeAssetsByChecksum(debAssets, existingChecksums,
                                           downloadDir, ExistingArtifacts)
     IN  /\ toSkip' = cat.toSkip
         /\ toDownload' = cat.toDownload
         /\ downloadedFiles' = [i \in 1..Len(cat.toSkip) |-> cat.toSkip[i].filePath]
         /\ planned' = [assets |-> debAssets, index |-> existingChecksums,
                        present |-> ExistingArtifacts, files |-> debs, at |-> iruns]
  /\ ipc' = "fetch"
  /\ dirs' = dirs \cup {ReleaseDir(OutputDir, Owner, Repo, release.tag_name)}
  /\ UNCHANGED <<debs, rootDebs, frags, dists, release, source, callVars, fetchLog, ierr, prevRun, iruns, asmVars>>

\* downloadFile: the response is not ok ("http"), the body breaks off after
\* createWriteStream made the file ("stream"), or the file is written ("ok")
downloadFile(files, asset, outcome) ==
  CASE outcome = "ok" -> [files |-> MapSet(files, asset.name, asset.bytes), threw |-> FALSE]
    [] outcome = "stream" -> [files |-> MapSet(files, asset.name, Partial), threw |-> TRUE]
    [] OTHER -> [files |-> files, threw |-> TRUE]

\* the loop over toDownload, were a failed fetch to undo the run's earlier
\* fetches
ImportFetch_RollBack ==
  /\ ipc = "fetch"
  /\ Len(fetchLog) < Len(toDownload)
  /\ LET e == toDownload[Len(fetchLog) + 1]
     IN  \E outcome \in {"ok", "http", "stream"} :
           LET got == downloadFile(debs, e.asset, outcome)
           IN  /\ fetchLog' = Append(fetchLog, e.asset.name)
               /\ IF got.threw
                    THEN /\ debs' = planned.files
                         /\ ipc' = "failed"
                         /\ ierr' = [stage |-> "download", name |-> e.asset.name,
                                     cause |-> outcome]
                         /\ prevRun' = NoRun
                         /\ UNCHANGED downloadedFiles
                    ELSE /\ debs' = got.files
                         /\ downloadedFiles' = Append(downloadedFiles, e.filePath)
                         /\ UNCHANGED <<ipc, ierr, prevRun>>
  /\ UNCHANGED <<rootDebs, dirs, frags, dists, release, source, callVars, toSkip, toDownload, planned,
                 iruns, asmVars>>

\* one turn of the loop over toDownload
ImportFetch ==
  /\ ipc = "fetch"
  /\ Len(fetchLog) < Len(toDownload)
  /\ LET e == toDownload[Len(fetchLog) + 1]
     IN  \E outcome \in {"ok", "http", "stream"} :
           LET got == downloadFile(debs, e.asset, outcome)
           IN  /\ fetchLog' = Append(fetchLog, e.asset.name)
               /\ debs' = got.files
               /\ IF got.threw
                    THEN /\ ipc' = "failed"
                         /\ ierr' = [stage |-> "download", name |-> e.asset.name,
                                     cause |-> outcome]
                         /\ prevRun' = NoRun
                         /\ UNCHANGED downloadedFiles
                    ELSE /\ downloadedFiles' = Append(downloadedFiles, e.filePath)
                         /\ UNCHANGED <<ipc, ierr, prevRun>>
  /\ UNCHANGED <<rootDebs, dirs, frags, dists, release, source, callVars, toSkip, toDownload, planned,
                 iruns, asmVars>>

\* downloadDebAssets returns downloadedFiles
ImportReturn ==
  /\ ipc = "fetch"
  /\ Len(fetchLog) = Len(toDownload)
  /\ ipc' = "returned"
  /\ UNCHANGED <<fsVars, release, source, callVars, toSkip, toDownload, downloadedFiles, fetchLog,
                 ierr, planned, prevRun, iruns, asmVars>>

\* path.dirname
dirname(p) ==
  LET hits == {i \in 1..Len(p) : p[i] = "/"}
  IN  IF hits = {} THEN <<".">>
      ELSE LET i == CHOOSE h \in hits : \A g \in hits : g <= h
           IN  IF i = 1 THEN <<"/">> ELSE SubSeq(p, 1, i - 1)

\* organizeDebFiles, were the fallback directory pool/ itself
organizeDebFiles_Flat(debFiles, owner, repo, tagName, outputDir) ==
  LET debDir == IF Len(debFiles) > 0
                  THEN dirname(debFiles[1])
                  ELSE PathJoin(outputDir, <<"pool">>)
  IN  [debDir |-> debDir, packagesPath |-> PathJoin(debDir, <<"Packages">>)]

organizeDebFiles(debFiles, owner, repo, tagName, outputDir) ==
  LET debDir == IF Len(debFiles) > 0
                  THEN dirname(debFiles[1])
                  ELSE ReleaseDir(outputDir, owner, repo, tagName)
  IN  [debDir |-> debDir, packagesPath |-> PathJoin(debDir, <<"Packages">>)]

\* the package files dpkg-scanpackages finds below the output directory
ScannedFiles ==
  [f \in {PathJoin(OutputDir, n) : n \in DOMAIN rootDebs} \cup ExistingArtifacts |->
     IF f \in ExistingArtifacts THEN debs[basename(f)] ELSE rootDebs[basename(f)]]

\* what fs.readdir(debDir) gives: the names in the directory, or ENOENT
Listing(names) == [code |-> "ok", files |-> names]
NoDirectory == [code |-> "ENOENT", files |-> {}]

\* generatePackagesFile without the fs.stat of the generated file
generatePackagesFile_NoSizeCheck(readdir, tool, scanned) ==
  IF readdir.code = "ENOENT"
    THEN [text |-> NoFile, ran |-> FALSE, error |-> "Directory not found"]
  ELSE IF {f \in readdir.files : EndsWith(f, <<".deb">>)} = {}
    THEN [text |-> NoFile, ran |-> FALSE, error |-> "No .deb files found"]
  ELSE IF tool # "ok"
    THEN [text |-> EmptyStr, ran |-> TRUE, error |-> "Failed to generate Packages file"]
  ELSE [text |-> scanned, ran |-> TRUE, error |-> "none"]

\* generatePackagesFile(debDir, outputPath), given what readdir(debDir)
\* gives, how the scanning tool ends and what fs.stat then finds at
\* outputPath (NoFile when nothing is there): [text, ran, error]; text is
\* what is left at outputPath, NoFile when the shell never opened it; ran
\* tells whether the scanning tool was started
generatePackagesFile(readdir, tool, scanned) ==
  IF readdir.code = "ENOENT"
    THEN [text |-> NoFile, ran |-> FALSE, error |-> "Directory not found"]
  ELSE IF {f \in readdir.files : EndsWith(f, <<".deb">>)} = {}
    THEN [text |-> NoFile, ran |-> FALSE, error |-> "No .deb files found"]
  ELSE IF tool # "ok"
    THEN [text |-> EmptyStr, ran |-> TRUE, error |-> "Failed to generate Packages file"]
  ELSE IF scanned = NoFile
    THEN [text |-> NoFile, ran |-> TRUE,
          error |-> "Failed to generate Packages file: Packages file was not created"]
  ELSE IF scanned = EmptyStr
    THEN [text |-> EmptyStr, ran |-> TRUE,
          error |-> "Failed to generate Packages file: Generated Packages file is empty"]
  ELSE [text |-> scanned, ran |-> TRUE, error |-> "none"]

\* runAction after downloadDebAssets, were it to clear dists/ once the
\* fragment is renewed
ImportGenerate_ClearsDists ==
  /\ ipc = "returned"
  /\ \E tool \in {"ok", "missing"} :
       LET org == organizeDebFiles(downloadedFiles, Owner, Repo, release.tag_name,
                                   OutputDir)
           listing == Listing((DOMAIN rootDebs) \cup {<<"pool">>})
           gen == generatePackagesFile(listing, tool,
                                       ScanOutput(ScannedFiles, ScanOrder))
       IN  /\ dirs' = dirs \cup {org.debDir}
           /\ frags' = IF gen.text = NoFile THEN frags
                       ELSE MapSet(frags, org.packagesPath, gen.text)
           /\ dists' = IF gen.error = "none" THEN EmptyMap ELSE dists
           /\ IF gen.error = "none"
                THEN ipc' = "done" /\ ierr' = NoError
                ELSE /\ ipc' = "failed"
                     /\ ierr' = [stage |-> "generate", name |-> EmptyStr,
                                 cause |-> gen.error]
           /\ prevRun' = [assets |-> planned.assets, returned |-> downloadedFiles,
                          ran |-> TRUE, done |-> gen.error = "none", at |-> iruns]
  /\ source' = NoSource
  /\ UNCHANGED callVars
  /\ UNCHANGED <<debs, rootDebs, release, toSkip, toDownload, downloadedFiles,
                 fetchLog, planned, iruns, asmVars>>

\* runAction after downloadDebAssets: organizeDebFiles, then
\* generatePackagesFile(outputDir, packagesPath)
ImportGenerate ==
  /\ ipc = "returned"
  /\ \E tool \in {"ok", "missing"} :
       LET org == organizeDebFiles(downloadedFiles, Owner, Repo, release.tag_name,
                                   OutputDir)
           listing == Listing((DOMAIN rootDebs) \cup {<<"pool">>})
           gen == generatePackagesFile(listing, tool,
                                       ScanOutput(ScannedFiles, ScanOrder))
       IN  /\ dirs' = dirs \cup {org.debDir}
           /\ frags' = IF gen.text = NoFile THEN frags
                       ELSE MapSet(frags, org.packagesPath, gen.text)
           /\ IF gen.error = "none"
                THEN ipc' = "done" /\ ierr' = NoError
                ELSE /\ ipc' = "failed"
                     /\ ierr' = [stage |-> "generate", name |-> EmptyStr,
                                 cause |-> gen.error]
           /\ prevRun' = [assets |-> planned.assets, returned |-> downloadedFiles,
                          ran |-> TRUE, done |-> gen.error = "none", at |-> iruns]
  /\ source' = NoSource
  /\ UNCHANGED callVars
  /\ UNCHANGED <<debs, rootDebs, dists, release, toSkip, toDownload, downloadedFiles,
                 fetchLog, planned, iruns, asmVars>>

\* between two runs: an artifact file is deleted, ...
EnvRemoveArtifact ==
  /\ ImportIdle
  /\ \E n \in DOMAIN debs : debs' = [m \in (DOMAIN debs) \ {n} |-> debs[m]]
  /\ ipc' = "idle"
  /\ UNCHANGED <<rootDebs, dirs, frags, dists, release, source, callVars, toSkip, toDownload, downloadedFiles,
                 fetchLog, ierr, planned, prevRun, iruns, asmVars>>

\* ... the fragment is lost or a saved one is put back, ...
EnvFragment ==
  /\ ImportIdle
  /\ \E f \in {NoFile, FragAB} :
       /\ f # ReadFrag(PackagesPath(DirNew))
       /\ frags' = MapSet(frags, PackagesPath(DirNew), f)
  /\ ipc' = "idle"
  /\ source' = NoSource
  /\ UNCHANGED callVars
  /\ dirs' = dirs \cup {DirNew}
  /\ UNCHANGED <<debs, rootDebs, dists, release, toSkip, toDownload, downloadedFiles,
                 fetchLog, ierr, planned, prevRun, iruns, asmVars>>

\* ... or the release's assets change
EnvRelease ==
  /\ ImportIdle
  /\ \E r \in {RelAB, RelChanged} : r # release /\ release' = r
  /\ ipc' = "idle"
  /\ UNCHANGED <<fsVars, source, callVars, toSkip, toDownload, downloadedFiles, fetchLog, ierr, planned,
                 prevRun, iruns, asmVars>>

\* no function is called on its own
NoCall == arg = NULL /\ result = NULL /\ called = FALSE

AssembleIdleState ==
  /\ apc = "idle"
  /\ sign = FALSE
  /\ packagesFiles = << >>
  /\ archKeys = << >>
  /\ entriesByArch = EmptyMap
  /\ widx = 0
  /\ aerr = NoError
  /\ aruns = 0
  /\ dists0 = EmptyMap
  /\ clean = TRUE
  /\ source = NoSource

ImportIdleState ==
  /\ ipc = "idle"
  /\ toSkip = << >>
  /\ toDownload = << >>
  /\ downloadedFiles = << >>
  /\ fetchLog = << >>
  /\ ierr = NoError
  /\ planned = NoPlan
  /\ prevRun = NoRun
  /\ iruns = 0

InitImport ==
  /\ debs \in ImportDebs
  /\ rootDebs \in {EmptyMap, (NameZ :> <<"x">>)}
  /\ \E f \in ImportFrags :
       /\ frags = (PackagesPath(DirNew) :> f)
       /\ dirs = IF debs = EmptyMap /\ f = NoFile THEN {} ELSE {DirNew}
  /\ dists = EmptyMap
  /\ release \in Releases
  /\ ImportIdleState
  /\ AssembleIdleState
  /\ NoCall

NextImport ==
  \/ ImportStart
  \/ ImportPlan
  \/ ImportFetch
  \/ ImportReturn
  \/ ImportGenerate
  \/ EnvRemoveArtifact
  \/ EnvFragment
  \/ EnvRelease

SpecImport == InitImport /\ [][NextImport]_vars

(***************************************************************************)
(* The assemble command: assembleAction and writeReleaseFile, step by      *)
(* step.                                                                   *)
(***************************************************************************)
\* path.join(outputDir, 'dists', 'stable')
DistPath == PathJoin(PathJoin(OutputDir, <<"dists">>), <<"stable">>)

\* path.join(outputDir, 'dists', 'stable', 'main', `binary-${arch}`)
BinaryDir(arch) == PathJoin(PathJoin(DistPath, <<"main">>), <<"binary-">> \o arch)
ReleasePath == PathJoin(DistPath, <<"Release">>)

\* the sequences that list every element of S once
Orders(S) ==
  {o \in [1..Cardinality(S) -> S] : \A i, j \in 1..Cardinality(S) : o[i] = o[j] => i = j}

\* findFilesRecursive(dir, filename) over the files `paths`: the files below
\* dir whose basename is filename; fdir returns them in an order of its own
findFilesRecursive(dir, filename, paths) ==
  {f \in paths : StartsWith(f, dir \o <<"/">>) /\ basename(f) = filename}

\* the files under pool/
PoolFiles == {f \in DOMAIN frags : frags[f] # NoFile} \cup ExistingArtifacts

\* extractField(entryText, fieldName): the value of the first line that
\* starts with fieldName + ":", or null
RECURSIVE FirstField(_, _)
FirstField(lines, prefix) ==
  IF lines = << >> THEN NULL
  ELSE IF StartsWith(Head(lines), prefix) THEN Trim(Substring(Head(lines), prefix))
  ELSE FirstField(Tail(lines), prefix)

extractField(entryText, fieldName) == FirstField(Split(entryText, LF), fieldName)

\* extractEntriesByArchitecture(content): the entries that have an
\* Architecture field, trimmed, each with its architecture, in text order
RECURSIVE ArchEntries(_)
ArchEntries(entries) ==
  IF entries = << >> THEN << >>
  ELSE LET architecture == extractField(Head(entries), <<"Architecture:">>)
       IN  (IF Truthy(architecture)
              THEN <<[architecture |-> architecture, entry |-> Trim(Head(entries))]>>
              ELSE << >>)
           \o ArchEntries(Tail(entries))

extractEntriesByArchitecture(content) == ArchEntries(SplitEntries(content))

\* the loops, were each entry to replace its architecture's list
RECURSIVE PushEntries_Overwrite(_, _)
PushEntries_Overwrite(entries, acc) ==
  IF entries = << >> THEN acc
  ELSE LET e == Head(entries)
           had == MapHas(acc.map, e.architecture)
       IN  PushEntries_Overwrite(Tail(entries),
             [keys |-> IF had THEN acc.keys ELSE Append(acc.keys, e.architecture),
              map |-> MapSet(acc.map, e.architecture, <<e.entry>>)])

\* the loops, were each entry put at the front of its architecture's list
RECURSIVE PushEntries_Unshift(_, _)
PushEntries_Unshift(entries, acc) ==
  IF entries = << >> THEN acc
  ELSE LET e == Head(entries)
           had == MapHas(acc.map, e.architecture)
       IN  PushEntries_Unshift(Tail(entries),
             [keys |-> IF had THEN acc.keys ELSE Append(acc.keys, e.architecture),
              map |-> MapSet(acc.map, e.architecture,
                             <<e.entry>>
                             \o (IF had THEN acc.map[e.architecture] ELSE << >>))])

\* the two loops that fill the entriesByArch Map: `keys` is the Map's
\* insertion order, `map` its values
RECURSIVE PushEntries(_, _)
PushEntries(entries, acc) ==
  IF entries = << >> THEN acc
  ELSE LET e == Head(entries)
           had == MapHas(acc.map, e.architecture)
       IN  PushEntries(Tail(entries),
             [keys |-> IF had THEN acc.keys ELSE Append(acc.keys, e.architecture),
              map |-> MapSet(acc.map, e.architecture,
                             (IF had THEN acc.map[e.architecture] ELSE << >>)
                             \o <<e.entry>>)])

RECURSIVE GroupFiles(_, _)
GroupFiles(contents, acc) ==
  IF contents = << >> THEN acc
  ELSE GroupFiles(Tail(contents),
                  PushEntries(extractEntriesByArchitecture(Head(contents)), acc))

\* the index file without the newline appended after the join
PackagesContent_NoTrailingNewline(entries) == Join(entries, <<LF, LF>>)

\* the index file, were the entries joined by one newline
PackagesContent_SingleNewline(entries) == Join(entries, <<LF>>) \o <<LF>>

\* entries.join('\n\n') + '\n'
PackagesContent(entries) == Join(entries, <<LF, LF>>) \o <<LF>>

\* what xz -k -f leaves beside a file, and what the two sq sign calls write
Xz(content) == <<"xz(">> \o content \o <<")">>
Detached(content) == <<"sig(">> \o content \o <<")">>
ClearSigned(content) == <<"clearsigned(">> \o content \o <<")">>

\* new Date().toISOString()
Now == "<date>"

\* a checksum line that names the file by its base name
ChecksumLine_BaseName(distPath, packagesFile, content) ==
  <<SP>> \o Sha256Hex(content) \o <<SP, ToString(Utf8Len(content)), SP>>
  \o basename(packagesFile) \o <<LF>>

\* one checksum line of the manifest
ChecksumLine(distPath, packagesFile, content) ==
  <<SP>> \o Sha256Hex(content) \o <<SP, ToString(Utf8Len(content)), SP>>
  \o PathRelative(distPath, packagesFile) \o <<LF>>

RECURSIVE ChecksumLines(_, _, _)
ChecksumLines(distPath, found, files) ==
  IF found = << >> THEN EmptyStr
  ELSE ChecksumLine(distPath, Head(found), files[Head(found)])
       \o ChecksumLines(distPath, Tail(found), files)

\* a manifest whose Date comes before Components
_makeReleaseContent_Reordered(distPath, architectures, found, files) ==
  <<"Suite:", SP, "stable", LF, "Architectures:", SP>>
  \o Join(architectures, <<SP>>)
  \o <<LF, "Date:", SP, Now, LF, "Components:", SP, "main", LF, "SHA256:", LF>>
  \o ChecksumLines(distPath, found, files)

\* _makeReleaseContent(distPath, architectures); `found` is what
\* findFilesRecursive(distPath, 'Packages') returned, `files` the tree
_makeReleaseContent(distPath, architectures, found, files) ==
  <<"Suite:", SP, "stable", LF, "Architectures:", SP>>
  \o Join(architectures, <<SP>>)
  \o <<LF, "Components:", SP, "main", LF, "Date:", SP, Now, LF, "SHA256:", LF>>
  \o ChecksumLines(distPath, found, files)

AssembleIdle == apc \in {"idle", "done", "failed"}

AsmError(cause) == [stage |-> "assemble", name |-> EmptyStr, cause |-> cause]

\* assembleAction up to the check of packagesFiles.length
AssembleStart ==
  /\ AssembleIdle
  /\ aruns < MaxAssembleRuns
  /\ aruns' = aruns + 1
  /\ sign' \in BOOLEAN
  /\ dists0' = dists
  /\ archKeys' = << >>
  /\ entriesByArch' = EmptyMap
  /\ widx' = 0
  /\ \E found \in Orders(findFilesRecursive(PoolDir, <<"Packages">>, PoolFiles)) :
       /\ packagesFiles' = found
       /\ IF Len(found) = 0
            THEN apc' = "failed" /\ aerr' = AsmError("No Packages files found")
            ELSE apc' = "group" /\ aerr' = NoError
  /\ clean' = (clean /\ apc' # "failed")
  /\ UNCHANGED <<fsVars, release, source, callVars, impVars>>

\* the loop over packagesFiles without the check of entriesByArch.size
AssembleGroup_NoSizeCheck ==
  /\ apc = "group"
  /\ IF \E i \in 1..Len(packagesFiles) : frags[packagesFiles[i]] = Unreadable
       THEN /\ apc' = "failed"
            /\ aerr' = AsmError("EACCES")
            /\ UNCHANGED <<archKeys, entriesByArch>>
       ELSE LET contents == [i \in 1..Len(packagesFiles) |-> frags[packagesFiles[i]]]
                grouped == GroupFiles(contents, [keys |-> << >>, map |-> EmptyMap])
            IN  /\ archKeys' = grouped.keys
                /\ entriesByArch' = grouped.map
                /\ apc' = "write"
                /\ aerr' = NoError
  /\ clean' = (clean /\ apc' # "failed")
  /\ UNCHANGED <<fsVars, release, source, callVars, impVars, sign, packagesFiles, widx, aruns, dists0>>

\* the loop over packagesFiles, and the check of entriesByArch.size
AssembleGroup ==
  /\ apc = "group"
  /\ IF \E i \in 1..Len(packagesFiles) : frags[packagesFiles[i]] = Unreadable
       THEN /\ apc' = "failed"
            /\ aerr' = AsmError("EACCES")
            /\ UNCHANGED <<archKeys, entriesByArch>>
       ELSE LET contents == [i \in 1..Len(packagesFiles) |-> frags[packagesFiles[i]]]
                grouped == GroupFiles(contents, [keys |-> << >>, map |-> EmptyMap])
            IN  /\ archKeys' = grouped.keys
                /\ entriesByArch' = grouped.map
                /\ IF grouped.keys = << >>
                     THEN /\ apc' = "failed"
                          /\ aerr' = AsmError("No package entries with Architecture field found")
                     ELSE apc' = "write" /\ aerr' = NoError
  /\ clean' = (clean /\ apc' # "failed")
  /\ UNCHANGED <<fsVars, release, source, callVars, impVars, sign, packagesFiles, widx, aruns, dists0>>

\* one turn of the loop over entriesByArch.entries(): the index file is
\* written, then xz compresses it or fails
AssembleWrite ==
  /\ apc = "write"
  /\ widx < Len(archKeys)
  /\ LET arch == archKeys[widx + 1]
         packagesPath == PathJoin(BinaryDir(arch), <<"Packages">>)
         packagesContent == PackagesContent(entriesByArch[arch])
         written == MapSet(dists, packagesPath, packagesContent)
     IN  \E xz \in {"ok", "failed"} :
           IF xz = "ok"
             THEN /\ dists' = MapSet(written, packagesPath \o <<".xz">>, Xz(packagesContent))
                  /\ widx' = widx + 1
                  /\ UNCHANGED <<apc, aerr>>
             ELSE /\ dists' = written
                  /\ apc' = "failed"
                  /\ aerr' = AsmError("xz")
                  /\ UNCHANGED widx
  /\ clean' = (clean /\ apc' # "failed")
  /\ UNCHANGED <<debs, rootDebs, dirs, frags, release, source, callVars, impVars, sign, packagesFiles, archKeys,
                 entriesByArch, aruns, dists0>>

\* writeReleaseFile, were it called inside the write loop before the last
\* architecture's turn
AssembleRelease_BeforeLastIndex ==
  /\ apc = "write"
  /\ widx >= Len(archKeys) - 1
  /\ \E found \in Orders(findFilesRecursive(DistPath, <<"Packages">>, DOMAIN dists)) :
       dists' = MapSet(dists, ReleasePath,
                       _makeReleaseContent(DistPath, archKeys, found, dists))
  /\ apc' = IF sign THEN "sign" ELSE "done"
  /\ clean' = (clean /\ apc' # "failed")
  /\ UNCHANGED <<debs, rootDebs, dirs, frags, release, source, callVars, impVars, sign,
                 packagesFiles, archKeys, entriesByArch, widx, aerr, aruns, dists0>>

\* writeReleaseFile up to fs.writeFile(releasePath, ...)
AssembleRelease ==
  /\ apc = "write"
  /\ widx = Len(archKeys)
  /\ \E found \in Orders(findFilesRecursive(DistPath, <<"Packages">>, DOMAIN dists)) :
       dists' = MapSet(dists, ReleasePath,
                       _makeReleaseContent(DistPath, archKeys, found, dists))
  /\ apc' = IF sign THEN "sign" ELSE "done"
  /\ clean' = (clean /\ apc' # "failed")
  /\ UNCHANGED <<debs, rootDebs, dirs, frags, release, source, callVars, impVars, sign, packagesFiles, archKeys,
                 entriesByArch, widx, aerr, aruns, dists0>>

\* signReleaseFile, were the outcome of the second sq call not awaited
AssembleSign_SecondIgnored ==
  /\ apc = "sign"
  /\ \E sq \in {"ok", "first failed", "second failed"} :
       LET gpg == MapSet(dists, ReleasePath \o <<".gpg">>, Detached(dists[ReleasePath]))
       IN  CASE sq = "ok" ->
                  /\ dists' = MapSet(gpg, PathJoin(DistPath, <<"InRelease">>),
                                     ClearSigned(dists[ReleasePath]))
                  /\ apc' = "done"
                  /\ UNCHANGED aerr
             [] sq = "first failed" ->
                  /\ apc' = "failed"
                  /\ aerr' = AsmError("sq sign")
                  /\ UNCHANGED dists
             [] OTHER ->
                  /\ dists' = gpg
                  /\ apc' = "done"
                  /\ UNCHANGED aerr
  /\ clean' = (clean /\ apc' # "failed")
  /\ UNCHANGED <<debs, rootDebs, dirs, frags, release, source, callVars, impVars, sign, packagesFiles, archKeys,
                 entriesByArch, widx, aruns, dists0>>

\* signReleaseFile: the detached signature, then the clear-signed manifest;
\* either sq call may fail
AssembleSign ==
  /\ apc = "sign"
  /\ \E sq \in {"ok", "first failed", "second failed"} :
       LET gpg == MapSet(dists, ReleasePath \o <<".gpg">>, Detached(dists[ReleasePath]))
       IN  CASE sq = "ok" ->
                  /\ dists' = MapSet(gpg, PathJoin(DistPath, <<"InRelease">>),
                                     ClearSigned(dists[ReleasePath]))
                  /\ apc' = "done"
                  /\ UNCHANGED aerr
             [] sq = "first failed" ->
                  /\ apc' = "failed"
                  /\ aerr' = AsmError("sq sign")
                  /\ UNCHANGED dists
             [] OTHER ->
                  /\ dists' = gpg
                  /\ apc' = "failed"
                  /\ aerr' = AsmError("sq sign --cleartext")
  /\ clean' = (clean /\ apc' # "failed")
  /\ UNCHANGED <<debs, rootDebs, dirs, frags, release, source, callVars, impVars, sign, packagesFiles, archKeys,
                 entriesByArch, widx, aruns, dists0>>

\* an entry of a fragment: a Package line and, unless arch is empty, an
\* Architecture line
Entry(pkg, arch) ==
  <<"Package:", SP, pkg, LF>>
  \o (IF arch = EmptyStr THEN EmptyStr ELSE <<"Architecture:", SP>> \o arch \o <<LF>>)
  \o <<"SHA256:", SP, "ab", LF>>

Amd64 == <<"amd64">>
Arm64 == <<"arm64">>

\* fragments the pool may hold when an assemble run starts
AsmFragMixed ==
  Entry("p1", Arm64) \o <<LF>> \o Entry("p2", Amd64) \o <<SP, LF>>
  \o Entry("p0", EmptyStr) \o <<LF>> \o Entry("p3", Arm64)
AsmFragAmd == Entry("p4", Amd64) \o <<LF>> \o Entry("p2", Amd64) \o <<LF>>
AsmFragArm == Entry("p1", Arm64)
AsmFragNoArch == Entry("p0", EmptyStr) \o <<LF>>

\* the fragments each release directory may hold
NewDirFrags == {NoFile, AsmFragMixed, AsmFragArm}
OldDirFrags == {NoFile, Unreadable, AsmFragAmd, AsmFragNoArch}
DirFrags(d) == IF d = DirNew THEN NewDirFrags ELSE OldDirFrags

\* after a run: an import (or the user) replaces, adds or removes a fragment
EnvPool ==
  /\ apc \in {"done", "failed"}
  /\ aruns < MaxAssembleRuns
  /\ \E d \in PoolDirs :
       \E f \in DirFrags(d) :
         /\ f # ReadFrag(PackagesPath(d))
         /\ frags' = MapSet(frags, PackagesPath(d), f)
         /\ dirs' = dirs \cup {d}
  /\ apc' = "idle"
  /\ sign' = FALSE
  /\ packagesFiles' = << >>
  /\ archKeys' = << >>
  /\ entriesByArch' = EmptyMap
  /\ widx' = 0
  /\ aerr' = NoError
  /\ dists0' = EmptyMap
  /\ source' = NoSource
  /\ UNCHANGED callVars
  /\ UNCHANGED <<debs, rootDebs, dists, release, impVars, aruns, clean>>

InitAssemble ==
  /\ debs = (NameA :> <<"x">>)
  /\ rootDebs = EmptyMap
  /\ \E f \in NewDirFrags, g \in OldDirFrags :
       /\ frags = (PackagesPath(DirNew) :> f) @@ (PackagesPath(DirOld) :> g)
       /\ dirs = IF g = NoFile THEN {DirNew} ELSE {DirNew, DirOld}
  /\ dists = EmptyMap
  /\ release = RelAB
  /\ ImportIdleState
  /\ AssembleIdleState
  /\ NoCall

NextAssemble ==
  \/ AssembleStart
  \/ AssembleGroup
  \/ AssembleWrite
  \/ AssembleRelease
  \/ AssembleSign
  \/ EnvPool

SpecAssemble == InitAssemble /\ [][NextAssemble]_vars

(***************************************************************************)
(* The checksum index of a serialized fragment: parsePackagesFile applied  *)
(* to what entries.join('\n\n') + '\n' makes of a list of entries.         *)
(***************************************************************************)
\* the sequences over S of length lo..hi
SeqsOf(S, lo, hi) == UNION {[1..k -> S] : k \in lo..hi}

\* values of the Filename and SHA256 fields
FileValues == {<<".", "/", "pool", "/">> \o NameA, <<"other", "/">> \o NameA}
ShaValues == {Sha256Hex(<<"x">>), Sha256Hex(<<"y">>)}

\* an entry: a Package field, a Filename field unless file is NULL, and one
\* SHA256 field per element of shas
SourceEntries ==
  [file : FileValues \cup {NULL}, shas : SeqsOf(ShaValues, 0, MaxShaLines)]
  \cup {[file |-> NameB, shas |-> <<Sha256Hex(<<"y">>)>>]}
SourceLists == SeqsOf(SourceEntries, 1, MaxEntries)

\* the field/value pairs of an entry, in the order of its lines
FieldsOf(e) ==
  <<[name |-> "Package:", value |-> <<"gh">>]>>
  \o (IF e.file = NULL THEN << >> ELSE <<[name |-> "Filename:", value |-> e.file]>>)
  \o [i \in 1..Len(e.shas) |-> [name |-> "SHA256:", value |-> e.shas[i]]]

\* the text of an entry: one "Name: value" line per field
EntryLines(e) ==
  Join([i \in 1..Len(FieldsOf(e)) |-> <<FieldsOf(e)[i].name, SP>> \o FieldsOf(e)[i].value],
       <<LF>>)

\* the fragment the serializer makes of a list of entries
SerializeEntries(es) == PackagesContent([i \in 1..Len(es) |-> EntryLines(es[i])])

\* an import run that has got the release and is about to read a serialized
\* fragment
InitIndex ==
  /\ debs = (NameA :> <<"x">>)
  /\ rootDebs = EmptyMap
  /\ dirs = {DirNew}
  /\ \E es \in SourceLists :
       /\ source = es
       /\ frags = (PackagesPath(DirNew) :> SerializeEntries(es))
  /\ dists = EmptyMap
  /\ release = RelAB
  /\ ipc = "plan"
  /\ toSkip = << >>
  /\ toDownload = << >>
  /\ downloadedFiles = << >>
  /\ fetchLog = << >>
  /\ ierr = NoError
  /\ planned = NoPlan
  /\ prevRun = NoRun
  /\ iruns = 1
  /\ apc = "idle"
  /\ sign = FALSE
  /\ packagesFiles = << >>
  /\ archKeys = << >>
  /\ entriesByArch = EmptyMap
  /\ widx = 0
  /\ aerr = NoError
  /\ aruns = 0
  /\ dists0 = EmptyMap
  /\ clean = TRUE
  /\ NoCall

\* downloadDebAssets reads the fragment and plans
NextIndex == ImportPlan

SpecIndex == InitIndex /\ [][NextIndex]_vars

(***************************************************************************)
(* cli.mjs: parseRepository, called on its own with every short            *)
(* identifier.                                                             *)
(***************************************************************************)
\* the old action handler's test: const [owner, repo] = split('/'), and only
\* the two checked
parseRepository_PartsUnchecked(repoIdentifier) ==
  LET parts == Split(repoIdentifier, "/")
  IN  IF Len(parts) < 2 \/ ~Truthy(parts[1]) \/ ~Truthy(parts[2])
        THEN [threw |-> "Invalid repository format. Use owner/repo",
              owner |-> NULL, repo |-> NULL]
        ELSE [threw |-> "none", owner |-> parts[1], repo |-> parts[2]]

\* parseRepository: `threw` is the message of the error thrown, or "none"
parseRepository(repoIdentifier) ==
  LET parts == Split(repoIdentifier, "/")
  IN  IF Len(parts) # 2 \/ ~Truthy(parts[1]) \/ ~Truthy(parts[2])
        THEN [threw |-> "Invalid repository format. Use owner/repo",
              owner |-> NULL, repo |-> NULL]
        ELSE [threw |-> "none", owner |-> parts[1], repo |-> parts[2]]

\* the identifiers of up to MaxIdLen characters
IdChars == {"a", "b", "/"}
Identifiers == SeqsOf(IdChars, 0, MaxIdLen)

\* the state of the output tree and of the two commands while a function is
\* called on its own
Quiet ==
  /\ debs = EmptyMap
  /\ rootDebs = EmptyMap
  /\ dirs = {}
  /\ frags = (PackagesPath(DirNew) :> NoFile)
  /\ dists = EmptyMap
  /\ release = RelAB
  /\ ImportIdleState
  /\ AssembleIdleState

InitParse ==
  /\ Quiet
  /\ arg \in Identifiers
  /\ result = NULL
  /\ called = FALSE

\* Commander calls the argParser with the <owner/repo> argument
ParseArgument ==
  /\ ~called
  /\ result' = parseRepository(arg)
  /\ called' = TRUE
  /\ UNCHANGED <<fsVars, release, source, impVars, asmVars, arg>>

NextParse == ParseArgument

SpecParse == InitParse /\ [][NextParse]_vars

(***************************************************************************)
(* github.mjs: filterDebAssets, called on its own with every short list of *)
(* assets.                                                                 *)
(***************************************************************************)
\* asset names: two that end with .deb, one that is .deb alone, one with
\* .deb inside, one without
AssetNames == {NameA, NameB, <<".deb">>, <<"a", ".deb", ".txt">>, NameN}
AssetChoices == {Asset(n, <<"x">>, DigestLower(<<"x">>)) : n \in AssetNames}
AssetLists == SeqsOf(AssetChoices, 0, MaxAssets)

InitFilter ==
  /\ Quiet
  /\ arg \in AssetLists
  /\ result = NULL
  /\ called = FALSE

\* downloadDebAssets' first statement
FilterAssets ==
  /\ ~called
  /\ result' = filterDebAssets(Rel(arg))
  /\ called' = TRUE
  /\ UNCHANGED <<fsVars, release, source, impVars, asmVars, arg>>

NextFilter == FilterAssets

SpecFilter == InitFilter /\ [][NextFilter]_vars

(***************************************************************************)
(* dpkg.mjs: generatePackagesFile, called on its own.                      *)
(***************************************************************************)
\* what the directory may hold, how the tool may end, what it may leave
DirNames == {NameA, NameB, NameN, <<"Packages">>}
Readdirs == {NoDirectory} \cup {Listing(names) : names \in SUBSET DirNames}
ToolOutcomes == {"ok", "failed"}
GeneratedTexts == {NoFile, EmptyStr, FragAB}

InitGenerate ==
  /\ Quiet
  /\ arg \in [readdir : Readdirs, tool : ToolOutcomes, scanned : GeneratedTexts]
  /\ result = NULL
  /\ called = FALSE

GenerateFragment ==
  /\ ~called
  /\ result' = generatePackagesFile(arg.readdir, arg.tool, arg.scanned)
  /\ called' = TRUE
  /\ UNCHANGED <<fsVars, release, source, impVars, asmVars, arg>>

NextGenerate == GenerateFragment

SpecGenerate == InitGenerate /\ [][NextGenerate]_vars

(***************************************************************************)
(* The two commands on one output tree: import runs and assemble runs,     *)
(* their steps interleaved in any way.                                     *)
(***************************************************************************)
InitBoth ==
  /\ debs = EmptyMap
  /\ rootDebs \in {EmptyMap, (NameZ :> <<"x">>)}
  /\ dirs = {DirOld}
  /\ frags = (PackagesPath(DirNew) :> NoFile) @@ (PackagesPath(DirOld) :> AsmFragAmd)
  /\ dists = EmptyMap
  /\ release = RelAB
  /\ ImportIdleState
  /\ AssembleIdleState
  /\ NoCall

\* each command is started up to MaxRunsEach times
BoundedImportStart == iruns < MaxRunsEach /\ ImportStart
BoundedAssembleStart == aruns < MaxRunsEach /\ AssembleStart

NextBoth ==
  \/ BoundedImportStart
  \/ ImportPlan
  \/ ImportFetch
  \/ ImportReturn
  \/ ImportGenerate
  \/ BoundedAssembleStart
  \/ AssembleGroup
  \/ AssembleWrite
  \/ AssembleRelease
  \/ AssembleSign

SpecBoth == InitBoth /\ [][NextBoth]_vars

(***************************************************************************)
(* Properties of the import command.                                       *)
(***************************************************************************)
Planned == planned # NoPlan
PlannedPath(a) == PathJoin(DirNew, a.name)
InSkip(a) == \E j \in 1..Len(toSkip) : toSkip[j].asset = a
InDownload(a) == \E j \in 1..Len(toDownload) : toDownload[j].asset = a

\* the asset carries a sha256 digest
CarriesSha256(a) == a.digest # NULL /\ Len(a.digest) > 1 /\ a.digest[1] = "sha256:"
HexOf(a) == SubSeq(a.digest, 2, Len(a.digest))

\* the index the run read records the asset's digest, ignoring case
Recorded(a) ==
  /\ a.name \in DOMAIN planned.index
  /\ CarriesSha256(a)
  /\ ToLowerCase(planned.index[a.name]) = ToLowerCase(HexOf(a))

PresentAtPlan(a) == PlannedPath(a) \in planned.present

\* C1: the planner puts an asset in the skip list if and only if the index
\* has a digest for its name, the asset carries a sha256 digest, the two are
\* equal ignoring case and a file exists at the asset's target path; every
\* other asset is put in the fetch list.
C1_SkipIffRecordedAndPresent ==
  Planned =>
    \A i \in 1..Len(planned.assets) :
      LET a == planned.assets[i]
      IN  /\ InSkip(a) <=> (Recorded(a) /\ PresentAtPlan(a))
          /\ InDownload(a) <=> ~InSkip(a)

\* one asset is skipped while another, whose digest is recorded too, is
\* fetched because its file is missing
C1_Witness ==
  /\ Planned
  /\ \E i, j \in 1..Len(planned.assets) :
       /\ InSkip(planned.assets[i])
       /\ Recorded(planned.assets[j])
       /\ ~PresentAtPlan(planned.assets[j])
       /\ InDownload(planned.assets[j])

\* the release is the one the previous import saw, the fragment records the
\* digest of every asset of it
UnchangedAndRecorded ==
  /\ Planned
  /\ prevRun.ran
  /\ prevRun.at < planned.at
  /\ planned.assets # << >>
  /\ prevRun.assets = planned.assets
  /\ \A i \in 1..Len(planned.assets) : Recorded(planned.assets[i])

AllPresentAtPlan == \A i \in 1..Len(planned.assets) : PresentAtPlan(planned.assets[i])

InputOrderPaths == [i \in 1..Len(planned.assets) |-> PlannedPath(planned.assets[i])]
Range(f) == {f[i] : i \in DOMAIN f}

\* C2 as stated: with the fragment and the artifact files of a previous
\* (successful) import still present and the release unchanged, a second
\* import invokes the transport for no asset and returns the same list of
\* local paths as the previous one.
C2_SameListAsPrevious ==
  (ipc = "returned" /\ UnchangedAndRecorded /\ AllPresentAtPlan /\ prevRun.done) =>
    /\ fetchLog = << >>
    /\ downloadedFiles = prevRun.returned

\* what holds in place of C2: the second import invokes the transport for no
\* asset and returns the path of every asset in asset order, which are the
\* paths the previous import returned (that import may have listed them in
\* another order).
C2_NoFetchSamePaths ==
  (ipc = "returned" /\ UnchangedAndRecorded /\ AllPresentAtPlan) =>
    /\ fetchLog = << >>
    /\ downloadedFiles = InputOrderPaths
    /\ Range(downloadedFiles) = Range(prevRun.returned)
    /\ Len(downloadedFiles) = Len(prevRun.returned)

C2_Witness ==
  /\ ipc = "returned"
  /\ UnchangedAndRecorded
  /\ AllPresentAtPlan
  /\ prevRun.done
  /\ Len(downloadedFiles) = 2
  /\ downloadedFiles # prevRun.returned

\* C3 as stated: when the fragment an earlier (successful) import left is
\* present at the next import of the unchanged release, none of the release's
\* packages is downloaded again.
C3_FragmentAloneSpares ==
  (UnchangedAndRecorded /\ prevRun.done) => fetchLog = << >>

\* the names of the assets whose file was missing when the run planned
MissingAtPlan ==
  SelectSeq([i \in 1..Len(planned.assets) |-> planned.assets[i].name],
            LAMBDA n : PathJoin(DirNew, n) \notin planned.present)

\* what holds in place of C3: the packages whose artifact file is present too
\* are not downloaded again; the run downloads exactly those whose file is
\* missing.
C3_OnlyMissingFetched ==
  UnchangedAndRecorded =>
    /\ \A k \in 1..Len(fetchLog) : PathJoin(DirNew, fetchLog[k]) \notin planned.present
    /\ ipc = "returned" => fetchLog = MissingAtPlan

C3_Witness ==
  /\ ipc = "returned"
  /\ UnchangedAndRecorded
  /\ toSkip # << >>
  /\ fetchLog # << >>

\* C4 as stated: the list downloadDebAssets returns has the assets' paths in
\* the order of the input asset list.
C4_InputOrder ==
  ipc = "returned" => downloadedFiles = InputOrderPaths

\* what holds in place of C4: the returned list has the paths of the skipped
\* assets in input order, followed by the paths of the fetched assets in input
\* order (so it is in input order when no fetched asset precedes a skipped
\* one).
C4_SkippedThenFetched ==
  ipc = "returned" =>
    LET fetched == {PathJoin(DirNew, fetchLog[k]) : k \in 1..Len(fetchLog)}
    IN  /\ downloadedFiles =
             SelectSeq(InputOrderPaths, LAMBDA q : q \notin fetched)
             \o SelectSeq(InputOrderPaths, LAMBDA q : q \in fetched)
        /\ (\A i, j \in 1..Len(InputOrderPaths) :
              (i < j /\ InputOrderPaths[i] \in fetched) => InputOrderPaths[j] \in fetched)
           => downloadedFiles = InputOrderPaths

C4_Witness ==
  /\ ipc = "returned"
  /\ toSkip # << >>
  /\ fetchLog # << >>
  /\ downloadedFiles # InputOrderPaths

\* C5: when the fetch of an asset fails, the run ends in an error naming that
\* asset and the cause, no later asset of the fetch list is fetched, and the
\* files fetched or skipped earlier in the run are left in place.
C5_FetchFailureAborts ==
  (ipc = "failed" /\ ierr.stage = "download") =>
    LET k == Len(fetchLog)
    IN  /\ k >= 1 /\ k <= Len(toDownload)
        /\ fetchLog = [j \in 1..k |-> toDownload[j].asset.name]
        /\ ierr.name = toDownload[k].asset.name
        /\ ierr.cause \in {"http", "stream"}
        /\ downloadedFiles = [j \in 1..Len(toSkip) |-> toSkip[j].filePath]
                             \o [j \in 1..(k - 1) |-> toDownload[j].filePath]
        /\ \A j \in 1..(k - 1) :
             /\ toDownload[j].asset.name \in DOMAIN debs
             /\ debs[toDownload[j].asset.name] = toDownload[j].asset.bytes
        /\ \A j \in 1..Len(toSkip) :
             /\ toSkip[j].asset.name \in DOMAIN debs
             /\ debs[toSkip[j].asset.name] = planned.files[toSkip[j].asset.name]

\* the second fetch of a run fails after the first one succeeded
C5_Witness ==
  /\ ipc = "failed"
  /\ ierr.stage = "download"
  /\ Len(fetchLog) = 2
  /\ Len(toDownload) = 2

(***************************************************************************)
(* Properties of the assemble command.                                     *)
(***************************************************************************)
\* what each pool fragment holds, entry by entry
FragEntries(f) ==
  CASE f = AsmFragMixed ->
         <<[pkg |-> "p1", arch |-> Arm64], [pkg |-> "p2", arch |-> Amd64],
           [pkg |-> "p0", arch |-> EmptyStr], [pkg |-> "p3", arch |-> Arm64]>>
    [] f = AsmFragAmd -> <<[pkg |-> "p4", arch |-> Amd64], [pkg |-> "p2", arch |-> Amd64]>>
    [] f = AsmFragArm -> <<[pkg |-> "p1", arch |-> Arm64]>>
    [] f = AsmFragNoArch -> <<[pkg |-> "p0", arch |-> EmptyStr]>>
    [] OTHER -> << >>

\* the text of an entry, without the line feed that ends its last line
EntryText(e) == LET t == Entry(e.pkg, e.arch) IN SubSeq(t, 1, Len(t) - 1)

\* the texts of the entries of fragment f whose Architecture is A, in the
\* fragment's order
TextsOf(f, A) ==
  LET hits == SelectSeq(FragEntries(f), LAMBDA e : e.arch = A)
  IN  [i \in 1..Len(hits) |-> EntryText(hits[i])]

FragmentPaths == {PackagesPath(d) : d \in PoolDirs}
FragmentsPresent == {f \in FragmentPaths : frags[f] # NoFile}
AllReadable == \A f \in FragmentsPresent : frags[f] # Unreadable

\* the architectures that occur in the fragments of the pool
PoolArchs ==
  {A \in {Amd64, Arm64} : \E f \in FragmentsPresent : TextsOf(frags[f], A) # << >>}

Occurrences(seq, x) == Cardinality({i \in 1..Len(seq) : seq[i] = x})

RECURSIVE PoolOccurrences(_, _, _)
PoolOccurrences(paths, A, t) ==
  IF paths = {} THEN 0
  ELSE LET f == CHOOSE g \in paths : TRUE
       IN  Occurrences(TextsOf(frags[f], A), t) + PoolOccurrences(paths \ {f}, A, t)

\* the entries an index file holds
FileEntries(content) ==
  LET parts == SplitBlank(content)
  IN  SelectSeq([i \in 1..Len(parts) |-> Trim(parts[i])], LAMBDA t : t # EmptyStr)

IndexPath(A) == PathJoin(BinaryDir(A), <<"Packages">>)
IndexFiles == {f \in DOMAIN dists : basename(f) = <<"Packages">>}
NoArchTexts ==
  UNION {{EntryText(e) : e \in {x \in Range(FragEntries(frags[f])) : x.arch = EmptyStr}} :
           f \in FragmentsPresent}

RECURSIVE ScanOrderTexts(_, _)
ScanOrderTexts(files, A) ==
  IF files = << >> THEN << >>
  ELSE TextsOf(frags[Head(files)], A) \o ScanOrderTexts(Tail(files), A)

\* C7: within each architecture group the entries keep their source order:
\* the entries of one fragment in the order they have in the fragment, the
\* entries of an earlier-scanned fragment before those of a later-scanned one.
C7_SourceOrderKept ==
  (apc \in {"write", "sign", "done"}) =>
    \A A \in PoolArchs :
      /\ entriesByArch[A] = ScanOrderTexts(packagesFiles, A)
      /\ (apc = "done" =>
            FileEntries(dists[IndexPath(A)]) = ScanOrderTexts(packagesFiles, A))

\* the fragment of the older release was scanned first and gave two amd64
\* entries, the newer one gave a third and two arm64 entries around others
C7_Witness ==
  /\ apc = "done"
  /\ packagesFiles = <<PackagesPath(DirOld), PackagesPath(DirNew)>>
  /\ PoolArchs = {Amd64, Arm64}
  /\ Len(FileEntries(dists[IndexPath(Amd64)])) = 3
  /\ Len(FileEntries(dists[IndexPath(Arm64)])) = 2

\* the names on the Architectures line of the manifest
ArchitecturesLine ==
  LET v == extractField(dists[ReleasePath], <<"Architectures:">>)
  IN  IF v = NULL THEN << >> ELSE SelectSeq(Split(v, SP), LAMBDA n : n # EmptyStr)

\* alphabetical order of the architecture names
ArchRank(A) == IF A = Amd64 THEN 1 ELSE 2
Ascending(names) ==
  \A i, j \in 1..Len(names) : i < j => ArchRank(names[i]) < ArchRank(names[j])

\* C8: for every order in which the pool fragments are discovered, the
\* architecture names produced by grouping are iterated in ascending
\* alphabetical order, so the Architectures line of the manifest the run
\* writes lists them alphabetically (amd64 before arm64).
C8_ArchitecturesAlphabetical ==
  /\ apc \in {"write", "sign", "done"} => Ascending(archKeys)
  /\ apc \in {"sign", "done"} => Ascending(ArchitecturesLine)

\* C9: assemble fails with a not-found error, and writes nothing, when no
\* Packages fragment is found under pool/ or when no entry of any fragment
\* has an Architecture field.
C9_EmptyInputRejected ==
  (apc # "idle" /\ AllReadable /\ PoolArchs = {}) =>
    \/ apc = "group" /\ FragmentsPresent # {}
    \/ /\ apc = "failed"
       /\ dists = dists0
       /\ aerr.cause = IF FragmentsPresent = {}
                         THEN "No Packages files found"
                         ELSE "No package entries with Architecture field found"

\* a run over a fragment whose only entry has no Architecture field failed
C9_Witness ==
  /\ apc = "failed"
  /\ FragmentsPresent # {}
  /\ AllReadable
  /\ PoolArchs = {}
  /\ aerr.cause = "No package entries with Architecture field found"

\* the checksum lines of the manifest: the lines after the SHA256: header
ManifestLines == Split(dists[ReleasePath], LF)
HeaderAt == CHOOSE i \in 1..Len(ManifestLines) : ManifestLines[i] = <<"SHA256:">>
ManifestChecksumLines ==
  SelectSeq(SubSeq(ManifestLines, HeaderAt + 1, Len(ManifestLines)),
            LAMBDA l : l # EmptyStr)

\* the line the manifest owes to the file f below the release root
ExpectedLine(f) ==
  <<SP>> \o Sha256Hex(dists[f]) \o <<SP, ToString(Utf8Len(dists[f])), SP>>
  \o SubSeq(f, Len(DistPath) + 2, Len(f))

ManifestWritten ==
  \/ apc \in {"sign", "done"}
  \/ apc = "failed" /\ aerr.cause \in {"sq sign", "sq sign --cleartext"}

\* C10: the manifest has, for every file named exactly Packages under the
\* release root, exactly one checksum line made of a leading space, the
\* lowercase hex SHA256 of the file's content, the file's size in bytes and its
\* path relative to the release root, and no checksum line for any other file
\* (such as Packages.xz).
C10_OneLinePerIndexFile ==
  ManifestWritten =>
    /\ \A f \in IndexFiles :
         /\ Occurrences(ManifestChecksumLines, ExpectedLine(f)) = 1
         /\ ToLowerCase(Sha256Hex(dists[f])) = Sha256Hex(dists[f])
    /\ \A i \in 1..Len(ManifestChecksumLines) :
         \E f \in IndexFiles : ManifestChecksumLines[i] = ExpectedLine(f)
    /\ Len(ManifestChecksumLines) = Cardinality(IndexFiles)

\* the manifest of a tree with two index files, their .xz files and an older
\* manifest with its signature
C10_Witness ==
  /\ apc = "done"
  /\ aruns = 2
  /\ Cardinality(IndexFiles) = 2
  /\ \E f \in IndexFiles : f \o <<".xz">> \in DOMAIN dists
  /\ ReleasePath \o <<".gpg">> \in DOMAIN dists
  /\ Len(ManifestChecksumLines) = 2

\* the lines of the manifest that are not checksum lines, in text order
PreambleOf(lines) == SelectSeq(lines, LAMBDA l : l # EmptyStr /\ Head(l) # SP)

\* C11: every manifest text has its fields in the fixed order Suite,
\* Architectures, Components, Date, then the SHA256: header, with all checksum
\* lines after the header; the Architectures value is the caller's list joined
\* by single spaces in the caller's order.
C11_FieldOrder ==
  ManifestWritten =>
    /\ Len(ManifestLines) >= 5
    /\ ManifestLines[1] = <<"Suite:", SP, "stable">>
    /\ ManifestLines[2] = <<"Architectures:", SP>> \o Join(archKeys, <<SP>>)
    /\ ManifestLines[3] = <<"Components:", SP, "main">>
    /\ ManifestLines[4] = <<"Date:", SP, Now>>
    /\ ManifestLines[5] = <<"SHA256:">>
    /\ Len(PreambleOf(ManifestLines)) = 5
    /\ \A i \in 6..Len(ManifestLines) :
         ManifestLines[i] = EmptyStr \/ Head(ManifestLines[i]) = SP
    /\ ArchitecturesLine = archKeys

\* a manifest for two architectures, given in an order that is not sorted,
\* with two checksum lines
C11_Witness ==
  /\ apc = "done"
  /\ archKeys = <<Arm64, Amd64>>
  /\ Len(ManifestChecksumLines) = 2
  /\ ManifestLines[2] = <<"Architectures:", SP, "arm64", SP, "amd64">>

\* the index files under the release root, lexicographically by path
SortedIndexFiles ==
  SelectSeq(<<IndexPath(Amd64), IndexPath(Arm64)>>, LAMBDA f : f \in IndexFiles)

\* C12: the checksum lines of the manifest are in a fixed traversal order
\* (lexicographic by path) of the discovered index files, whatever order the
\* directory scan returns the files in: two builds over the same files give
\* the same lines in the same order.
C12_FixedLineOrder ==
  ManifestWritten =>
    ManifestChecksumLines =
      [i \in 1..Len(SortedIndexFiles) |-> ExpectedLine(SortedIndexFiles[i])]

\* the files a successful run over the present pool writes under dists/
FilesOfThisRun ==
  {IndexPath(A) : A \in PoolArchs}
  \cup {IndexPath(A) \o <<".xz">> : A \in PoolArchs}
  \cup {ReleasePath}
  \cup (IF sign THEN {ReleasePath \o <<".gpg">>, PathJoin(DistPath, <<"InRelease">>)}
        ELSE {})

\* C13: after every successful assemble run the index files under dists/ and
\* the manifest are determined only by the fragments present in pool/ at that
\* run: nothing an earlier run wrote under dists/ survives, not even the index
\* file of an architecture that no fragment contains any more.
C13_NothingSurvives ==
  apc = "done" =>
    /\ DOMAIN dists = FilesOfThisRun
    /\ Len(ManifestChecksumLines) = Cardinality(PoolArchs)

\* the manifest and the two signature files
ManifestFiles ==
  {ReleasePath, ReleasePath \o <<".gpg">>, PathJoin(DistPath, <<"InRelease">>)}

\* the run has not touched file f: it is as it was when the run started
Untouched(f) ==
  /\ f \in DOMAIN dists <=> f \in DOMAIN dists0
  /\ f \in DOMAIN dists => dists[f] = dists0[f]

\* C14: if any stage of an assemble run fails (grouping, writing or
\* compressing an index, building the manifest, or either signing call), the
\* run aborts and no manifest or signature file written by that run is left on
\* disk.
C14_NoPartialManifest ==
  apc = "failed" => \A f \in ManifestFiles : Untouched(f)

\* C15: when signing is requested, an assemble run succeeds only if both the
\* detached signature (Release.gpg) and the clear-signed manifest (InRelease)
\* were produced from the manifest; the failure of either signing call makes
\* the run fail.
C15_BothSignaturesOrFailure ==
  /\ (apc = "done" /\ sign) =>
       /\ ManifestFiles \subseteq DOMAIN dists
       /\ dists[ReleasePath \o <<".gpg">>] = Detached(dists[ReleasePath])
       /\ dists[PathJoin(DistPath, <<"InRelease">>)] = ClearSigned(dists[ReleasePath])
  /\ (apc = "failed" /\ aerr.cause \in {"sq sign", "sq sign --cleartext"}) => sign

\* a signed run succeeded
C15_Witness ==
  /\ apc = "done"
  /\ sign
  /\ ManifestFiles \subseteq DOMAIN dists
  /\ ManifestFiles \cap DOMAIN dists0 = {}

(***************************************************************************)
(* Properties of the checksum index.                                       *)
(***************************************************************************)
Serialized == Planned /\ source # NoSource

\* the base name of a Filename value
BaseOf(file) == IF file = NameB THEN NameB ELSE NameA

\* the entries of the source that have a Filename and a SHA256 field
WithBoth == {i \in 1..Len(source) : source[i].file # NULL /\ source[i].shas # << >>}

\* the last entry with both fields whose Filename has the base name n
LastFor(n) ==
  CHOOSE i \in WithBoth :
    /\ BaseOf(source[i].file) = n
    /\ \A j \in WithBoth : BaseOf(source[j].file) = n => j <= i

\* C16: the checksum index built from a fragment maps the base name of each
\* entry's Filename to that entry's SHA256 for exactly the entries that have
\* both fields; when several entries have the same base name, the index holds
\* the digest of the last such entry.
C16_IndexOfFragment ==
  Serialized =>
    /\ DOMAIN planned.index = {BaseOf(source[i].file) : i \in WithBoth}
    /\ \A n \in DOMAIN planned.index :
         /\ planned.index[n] \in Range(source[LastFor(n)].shas)
         /\ Len(source[LastFor(n)].shas) = 1 =>
              planned.index[n] = source[LastFor(n)].shas[1]

\* two entries name a.deb by different paths and with different digests, and
\* an entry without digest lies in between or beside them
C16_Witness ==
  /\ Serialized
  /\ \E i, j \in WithBoth :
       /\ i < j
       /\ source[i].file # source[j].file
       /\ BaseOf(source[i].file) = BaseOf(source[j].file)
       /\ source[i].shas # source[j].shas
       /\ Len(source[j].shas) = 1
       /\ planned.index[BaseOf(source[j].file)] = source[j].shas[1]

\* C17: when one entry has the same field twice, the last occurrence wins: an
\* entry with two SHA256: lines contributes the value of the second line to
\* the checksum index.
C17_LastFieldWins ==
  Serialized =>
    \A n \in DOMAIN planned.index :
      LET shas == source[LastFor(n)].shas
      IN  Len(shas) >= 2 => planned.index[n] = shas[Len(shas)]

\* the entry that decides a.deb's digest has two different SHA256 lines
C17_Witness ==
  /\ Serialized
  /\ \E n \in DOMAIN planned.index :
       LET shas == source[LastFor(n)].shas
       IN  /\ Len(shas) = 2
           /\ shas[1] # shas[2]
           /\ planned.index[n] = shas[2]

(***************************************************************************)
(* More properties of the import command.                                  *)
(***************************************************************************)
\* the release directory has no fragment, or one that cannot be read
FragmentMissing == ReadFrag(PackagesPath(DirNew)) \in {NoFile, Unreadable}

\* C18: a missing or unreadable per-release fragment makes parsePackagesFile
\* return an empty checksum index without raising an error, and the import run
\* then continues and puts every asset in the fetch list.
C18_MissingFragmentFetchesAll ==
  [][(ipc = "plan" /\ FragmentMissing) =>
       /\ ipc' = "fetch"
       /\ ierr' = NoError
       /\ planned'.index = EmptyMap
       /\ toSkip' = << >>
       /\ Len(toDownload') = Len(planned'.assets)
       /\ \A i \in 1..Len(planned'.assets) : toDownload'[i].asset = planned'.assets[i]]_vars

\* a run planned over an unreadable fragment while both artifact files were
\* there, and goes on to fetch both
C18_Witness ==
  /\ ipc = "fetch"
  /\ ReadFrag(PackagesPath(DirNew)) = Unreadable
  /\ planned.index = EmptyMap
  /\ Len(planned.assets) = 2
  /\ AllPresentAtPlan
  /\ Len(toDownload) = 2

\* the asset has no digest, or one of an algorithm other than sha256
NoSha256Digest(a) == a.digest = NULL \/ ~StartsWith(a.digest, <<"sha256:">>)

\* C19: an asset whose digest is absent or uses an algorithm other than
\* sha256 is treated as having no digest (extractAssetSHA256 returns null)
\* and is therefore fetched, even when the index has a digest for its name
\* and the file exists.
C19_NoSha256DigestFetched ==
  Planned =>
    \A i \in 1..Len(planned.assets) :
      NoSha256Digest(planned.assets[i]) =>
        /\ extractAssetSHA256(planned.assets[i]) = NULL
        /\ InDownload(planned.assets[i])
        /\ ~InSkip(planned.assets[i])

\* an asset with an md5 digest whose hex part is the very digest the index
\* records for its name, its file on disk, is in the fetch list
C19_Witness ==
  /\ Planned
  /\ \E i \in 1..Len(planned.assets) :
       LET a == planned.assets[i]
       IN  /\ a.digest # NULL
           /\ ~StartsWith(a.digest, <<"sha256:">>)
           /\ a.name \in DOMAIN planned.index
           /\ planned.index[a.name] = Tail(a.digest)
           /\ PresentAtPlan(a)
           /\ InDownload(a)

(***************************************************************************)
(* Serializing entries and parsing them back.                              *)
(***************************************************************************)
\* the field/value pairs the parser's line loop sees in one entry: the lines
\* of entry.split('\n') that are not blank, the field name with its colon
\* and the trimmed rest of the line
ParsedFields(entry) ==
  LET lines == SelectSeq(Split(entry, LF), LAMBDA line : Trim(line) # EmptyStr)
  IN  [i \in 1..Len(lines) |-> [name |-> Head(lines[i]),
                                value |-> Trim(Tail(lines[i]))]]

\* the entries the parser splits the serialized fragment into
ParsedEntries == SplitEntries(frags[PackagesPath(DirNew)])

LinesOf(content) == Split(content, LF)

\* the lines of a text, the last element excepted, that hold nothing but
\* whitespace
BlankLines(content) ==
  {i \in 1..(Len(LinesOf(content)) - 1) : Trim(LinesOf(content)[i]) = EmptyStr}

\* the architectures whose index file the run has written and compressed
WrittenArchs == {archKeys[k] : k \in 1..widx}

\* C21: the text written for a per-architecture index has exactly one blank
\* line between each two consecutive entries, no blank line before the first
\* entry, and exactly one newline after the last entry.
C21_OneBlankLineBetweenEntries ==
  \A A \in WrittenArchs :
    LET content == dists[IndexPath(A)]
        lines == LinesOf(content)
        blank == BlankLines(content)
    IN  /\ Len(lines) >= 2
        /\ lines[Len(lines)] = EmptyStr
        /\ 1 \notin blank
        /\ (Len(lines) - 1) \notin blank
        /\ \A i \in blank : lines[i] = EmptyStr /\ (i + 1) \notin blank
        /\ Cardinality(blank) = Len(entriesByArch[A]) - 1
        /\ FileEntries(content) = entriesByArch[A]

\* a run has written an index of three entries and one of two
C21_Witness ==
  /\ apc = "done"
  /\ WrittenArchs = {Amd64, Arm64}
  /\ Len(entriesByArch[Amd64]) = 3
  /\ Len(entriesByArch[Arm64]) = 2
  /\ Cardinality(BlankLines(dists[IndexPath(Amd64)])) = 2
  /\ Cardinality(BlankLines(dists[IndexPath(Arm64)])) = 1

(***************************************************************************)
(* The import command as a whole.                                          *)
(***************************************************************************)
\* the import run has ended, having planned over the release's assets
ImportEnded == ipc \in {"done", "failed"} /\ Planned

\* C22: importing a release that has no .deb asset ends in a not-found error
\* instead of succeeding, and no asset is fetched.
C22_NoDebAssetNotFound ==
  (ImportEnded /\ planned.assets = << >>) =>
    /\ ipc = "failed"
    /\ ierr.cause = "No .deb files found"
    /\ fetchLog = << >>

(***************************************************************************)
(* Properties of the functions called on their own.                        *)
(***************************************************************************)
\* where the argument has a slash
Slashes == {i \in 1..Len(arg) : arg[i] = "/"}

\* the argument is two non-empty parts separated by a single slash
TwoParts == Cardinality(Slashes) = 1 /\ 1 \notin Slashes /\ Len(arg) \notin Slashes

\* C23: parseRepository returns {owner, repo} exactly for identifiers made of
\* two non-empty parts separated by a single '/', and throws 'Invalid
\* repository format' for every other string (no slash, empty owner, empty
\* repo, empty string, more than one slash).
C23_TwoPartsOrThrow ==
  called =>
    IF TwoParts
      THEN LET i == CHOOSE j \in Slashes : TRUE
           IN  result = [threw |-> "none", owner |-> SubSeq(arg, 1, i - 1),
                         repo |-> SubSeq(arg, i + 1, Len(arg))]
      ELSE /\ result.threw = "Invalid repository format. Use owner/repo"
           /\ result.owner = NULL
           /\ result.repo = NULL

\* ab/b was parsed into owner ab and repo b
C23_Witness ==
  /\ called
  /\ arg = <<"a", "b", "/", "b">>
  /\ result.threw = "none"
  /\ result.owner = <<"a", "b">>
  /\ result.repo = <<"b">>

\* an identifier with a third part was rejected
C23_WitnessThrow ==
  /\ called
  /\ arg = <<"a", "/", "b", "/">>
  /\ result.threw # "none"

\* the positions of the assets whose name ends with .deb
DebPositions == {i \in 1..Len(arg) : arg[i].name[Len(arg[i].name)] = ".deb"}

\* the k-th of them
DebPosition(k) ==
  CHOOSE i \in DebPositions : Cardinality({j \in DebPositions : j <= i}) = k

\* C24: filterDebAssets returns exactly the release assets whose name ends
\* with '.deb', in their original order and unchanged, and returns an empty
\* list when there is none.
C24_ExactlyTheDebAssets ==
  called =>
    /\ Len(result) = Cardinality(DebPositions)
    /\ \A k \in 1..Len(result) : result[k] = arg[DebPosition(k)]

\* two of three assets were kept, in their order; the one dropped has .deb
\* inside its name
C24_Witness ==
  /\ called
  /\ Len(arg) = 3
  /\ arg[1].name = NameB
  /\ arg[2].name = <<"a", ".deb", ".txt">>
  /\ arg[3].name = NameA
  /\ result = <<arg[1], arg[3]>>

(***************************************************************************)
(* The layout of the pool.                                                 *)
(***************************************************************************)
\* <output>/pool/<owner>/<repo>/<tag>, written out
LayoutDir(tag) == <<"/", "out", "/", "pool", "/", "o", "/", "r", "/">> \o tag
LayoutFragment(tag) == LayoutDir(tag) \o <<"/", "Packages">>

\* what organizeDebFiles returns for the list downloadDebAssets returned
Organized ==
  organizeDebFiles(downloadedFiles, Owner, Repo, release.tag_name, OutputDir)

\* the entries the planner made, skipped and to fetch
PlannedEntries == toSkip \o toDownload

ListedDebs == {f \in arg.readdir.files : f[Len(f)] = ".deb"}

\* C26: generatePackagesFile fails with 'Directory not found' when the
\* artifact directory does not exist, with 'No .deb files found' when the
\* directory holds no .deb file, and with an error when the generated
\* fragment is missing or zero bytes; in the first two cases the scanning
\* tool is never run.
C26_GenerateFailures ==
  called =>
    /\ arg.readdir.code = "ENOENT" =>
         result.error = "Directory not found" /\ ~result.ran
    /\ (arg.readdir.code = "ok" /\ ListedDebs = {}) =>
         result.error = "No .deb files found" /\ ~result.ran
    /\ (arg.readdir.code = "ok" /\ ListedDebs # {} /\ arg.tool = "ok"
        /\ arg.scanned \in {NoFile, EmptyStr}) =>
         result.error # "none" /\ result.ran

\* the tool ended well over a directory with a .deb file and left a file of
\* zero bytes: the call failed
C26_Witness ==
  /\ called
  /\ arg.readdir.code = "ok"
  /\ ListedDebs = {NameA}
  /\ arg.tool = "ok"
  /\ arg.scanned = EmptyStr
  /\ result.ran
  /\ result.error # "none"

\* the directory held files but no .deb file: the tool was not run
C26_WitnessNoDeb ==
  /\ called
  /\ arg.readdir = Listing({NameN, <<"Packages">>})
  /\ result.error = "No .deb files found"
  /\ ~result.ran

(***************************************************************************)
(* The import command from start to end.                                   *)
(***************************************************************************)
\* every fetch of the run succeeded, and the scanning tool could be run
FetchesAndToolFine ==
  /\ ierr.stage # "download"
  /\ ierr.cause # "Failed to generate Packages file"

\* C27: an import run of a release that has at least one .deb asset, in
\* which every fetch succeeds and the scanning tool is available, completes
\* successfully and leaves a non-empty per-release fragment at
\* <output>/pool/<owner>/<repo>/<tag>/Packages.
C27_ImportCompletes ==
  (ImportEnded /\ planned.assets # << >> /\ FetchesAndToolFine) =>
    /\ ipc = "done"
    /\ ReadFrag(LayoutFragment(release.tag_name)) \notin {NoFile, Unreadable, EmptyStr}

(***************************************************************************)
(* The manifest over several assemble runs.                                *)
(***************************************************************************)
\* the architectures the checksum lines name: what follows binary- in the
\* path of a line
ArchsOfLine(line) ==
  {<<line[k + 1]>> : k \in {j \in 1..(Len(line) - 1) : line[j] = "binary-"}}
ChecksumArchs ==
  UNION {ArchsOfLine(ManifestChecksumLines[i]) : i \in 1..Len(ManifestChecksumLines)}

\* C28: after any sequence of successful assemble runs over changing pool
\* contents, the set of architectures that have a checksum line
\* (binary-<arch>/Packages) in the Release manifest equals the set of
\* architectures named on the manifest's Architectures line.
C28_ChecksumArchsAreListed ==
  (apc = "done" /\ clean) => ChecksumArchs = Range(ArchitecturesLine)

(***************************************************************************)
(* The order of the steps of an assemble run.                              *)
(***************************************************************************)
\* the step writes file f or changes its content
Written(f) ==
  /\ f \in DOMAIN dists'
  /\ f \notin DOMAIN dists \/ dists'[f] # dists[f]

SignatureFiles == {ReleasePath \o <<".gpg">>, PathJoin(DistPath, <<"InRelease">>)}

\* every architecture of the run has its index file and the compressed copy
\* of it
AllIndexesWritten ==
  /\ widx = Len(archKeys)
  /\ \A k \in 1..Len(archKeys) :
       /\ IndexPath(archKeys[k]) \in DOMAIN dists
       /\ IndexPath(archKeys[k]) \o <<".xz">> \in DOMAIN dists
       /\ dists[IndexPath(archKeys[k]) \o <<".xz">>] = Xz(dists[IndexPath(archKeys[k])])
       /\ FileEntries(dists[IndexPath(archKeys[k])]) = entriesByArch[archKeys[k]]

\* every checksum line is the line owed to the file it names, as that file
\* is now
LinesMatchFiles ==
  \A i \in 1..Len(ManifestChecksumLines) :
    \E f \in IndexFiles : ManifestChecksumLines[i] = ExpectedLine(f)

StepOrder ==
  /\ (Written(ReleasePath) \/ (apc = "write" /\ apc' \in {"sign", "done"})) =>
       /\ apc = "write"
       /\ AllIndexesWritten
       /\ ReleasePath \in DOMAIN dists'
  /\ (\E f \in SignatureFiles : Written(f)) =>
       /\ apc = "sign"
       /\ ReleasePath \in DOMAIN dists
       /\ ~Written(ReleasePath)
  /\ (\E f \in DOMAIN dists' : basename(f) \in {<<"Packages">>, <<"Packages", ".xz">>}
                               /\ Written(f)) =>
       /\ apc = "write"
       /\ widx < Len(archKeys)
       /\ ~Written(ReleasePath)
       /\ \A f \in SignatureFiles : ~Written(f)

\* C29: in every assemble run the Release manifest is computed and written
\* only after every per-architecture index file of that run has been written
\* and compressed, and signing starts only after the Release file has been
\* written, so each checksum line in the Release matches the final content of
\* the index file it names.
C29_ManifestAfterIndexes ==
  /\ [][StepOrder]_vars
  /\ [](ManifestWritten => (AllIndexesWritten /\ LinesMatchFiles))

\* a signed run over two architectures has ended: the manifest has both
\* lines and both signature files are there
C29_Witness ==
  /\ apc = "done"
  /\ sign
  /\ Len(archKeys) = 2
  /\ Len(ManifestChecksumLines) = 2
  /\ LinesMatchFiles
  /\ SignatureFiles \subseteq DOMAIN dists

(***************************************************************************)
(* What each command writes.                                               *)
(***************************************************************************)
\* a step of an assemble run, a step of an import run
AssembleStep == asmVars' # asmVars /\ apc' # "idle"
ImportStep == impVars' # impVars /\ ipc' # "idle"

\* C30: the two commands write disjoint parts of the output tree: an
\* assemble run, successful or failed, creates, changes or deletes nothing
\* under <output>/pool/ (fragments and artifacts stay as they were), and an
\* import run creates, changes or deletes nothing under <output>/dists/.
C30_DisjointWrites ==
  [][/\ AssembleStep => UNCHANGED <<debs, dirs, frags>>
     /\ ImportStep => UNCHANGED dists]_vars

\* an import run has ended well beside the index files, the manifest and the
\* signatures of an assemble run that ended well, and the pool has the
\* artifacts and the fragment of the import
C30_Witness ==
  /\ ipc = "done"
  /\ apc = "done"
  /\ sign
  /\ DOMAIN debs = {NameA, NameB}
  /\ ReadFrag(PackagesPath(DirNew)) \notin {NoFile, EmptyStr}
  /\ ReleasePath \in DOMAIN dists
  /\ IndexPath(Amd64) \in DOMAIN dists

====
